---- MODULE Spec2Model ----
(***************************************************************************)
(* Model of the license-scanner import pipeline (importer.Import,         *)
(* importSPDX, importCustom), of the resources package it writes through, *)
(* and of the template validator the importer calls.                      *)
(*                                                                         *)
(* File names and texts are sequences of tokens: a name such as           *)
(* "deprecated_A.template.txt" is <<"deprecated_", "A", ".template.txt">>, *)
(* so that TrimSuffix, HasPrefix and TrimPrefix are computed, not assumed. *)
(***************************************************************************)
EXTENDS Integers, Sequences, FiniteSets, TLC

VARIABLES
    cfg,          \* the viper configuration: flag name -> value
    pc,           \* position of the running Import call
    ret,          \* what Import / importSPDX / importCustom returned
    templateDEs,  \* importSPDX: entries of the template source directory
    idx,          \* importSPDX: number of entries the loop has finished
    errorCount,   \* importSPDX: errorCount
    log,          \* one record per template entry the loop has handled
    destDirs,     \* directories that exist in the destination
    destFiles,    \* files of the destination: set of [dir, name, bytes, old]
    licenseIds,   \* importCustom: ids returned by ReadCustomLicensePatternIds
    idIdx,        \* importCustom: number of ids finished
    des,          \* importCustom: entries of the current id's directory
    deIdx,        \* importCustom: number of entries of des finished
    clog,         \* one record per custom id / file handled
    called,       \* the importers the Import call has run, in order
    sources,      \* importSPDX: what reading the sources delivered
    vTemplate,    \* validator run: template bytes
    vText,        \* validator run: reference text bytes
    vResult,      \* validator run: result of validate
    res,          \* a Resources value built by NewResources, or NoResources
    reads,        \* the reader and path used by the last read through res
    cwd           \* the working directory of the process

vars == <<cfg, pc, ret, templateDEs, idx, errorCount, log, destDirs, destFiles,
          licenseIds, idIdx, des, deIdx, clog, called, sources,
          vTemplate, vText, vResult, res, reads, cwd>>

importVars == <<pc, ret, templateDEs, idx, errorCount, log, destDirs, destFiles,
                licenseIds, idIdx, des, deIdx, clog, called, sources>>
validateVars == <<vTemplate, vText, vResult>>
resourceVars == <<res, reads, cwd>>

----------------------------------------------------------------------------
(* Bounds *)

MaxTemplateLen == 4
MaxDocLen == 3

----------------------------------------------------------------------------
(* Sequences of tokens *)

SeqsUpTo(S, n) == UNION {[1..k -> S] : k \in 0..n}

HasPrefix(s, p) == Len(s) >= Len(p) /\ SubSeq(s, 1, Len(p)) = p

HasSuffix(s, p) == Len(s) >= Len(p) /\ SubSeq(s, Len(s) - Len(p) + 1, Len(s)) = p

TrimPrefix(s, p) == IF HasPrefix(s, p) THEN SubSeq(s, Len(p) + 1, Len(s)) ELSE s

TrimSuffix(s, p) == IF HasSuffix(s, p) THEN SubSeq(s, 1, Len(s) - Len(p)) ELSE s

IsSubstring(b, s) ==
    \E i \in 0..Len(s) : i + Len(b) <= Len(s) /\ SubSeq(s, i + 1, i + Len(b)) = b

----------------------------------------------------------------------------
(* Normalizer (spec 4.1): runs of whitespace collapse to one space; free   *)
(* text is also trimmed, a template's literal run is not.                  *)

RECURSIVE CollapseSpaces(_)
CollapseSpaces(s) ==
    IF Len(s) < 2 THEN s
    ELSE IF s[1] = " " /\ s[2] = " " THEN CollapseSpaces(Tail(s))
    ELSE <<s[1]>> \o CollapseSpaces(Tail(s))

TrimSpaces(s) ==
    LET a == IF Len(s) > 0 /\ s[1] = " " THEN Tail(s) ELSE s
    IN  IF Len(a) > 0 /\ a[Len(a)] = " " THEN SubSeq(a, 1, Len(a) - 1) ELSE a

Normalize(rawText, isPattern) ==
    IF isPattern THEN CollapseSpaces(rawText) ELSE TrimSpaces(CollapseSpaces(rawText))

----------------------------------------------------------------------------
(* Template Compiler (spec 4.2, 9): escape-aware scan with the states      *)
(* InLiteral, InMarker, InMarkerEscaped.  "<<" opens a marker, ">>" closes *)
(* it, "\\" escapes the next token inside a marker.  The marker's body is  *)
(* its match fragment: empty is a free variable, otherwise the variable    *)
(* matches the unescaped body.                                             *)

Literal(w) == [kind |-> "Literal", text |-> w]
Variable(w) == [kind |-> "Variable", text |-> w]

CompileError(why) == [ok |-> FALSE, err |-> why, segs |-> <<>>, ends |-> <<>>]

FlushLiteral(segs, lit) ==
    IF lit = <<>> THEN segs ELSE Append(segs, Literal(Normalize(lit, TRUE)))

\* a scanner that ends the marker at the first closing delimiter it sees
NaiveEndsMarker(state, tok) == state \in {"InMarker", "InMarkerEscaped"} /\ tok = ">>"

EndsMarker(state, tok) == state = "InMarker" /\ tok = ">>"

RECURSIVE ScanFrom(_, _, _, _, _, _, _)
ScanFrom(t, i, state, lit, body, segs, ends) ==
    IF i > Len(t) THEN
        IF state = "InLiteral"
        THEN [ok |-> TRUE, err |-> "", segs |-> FlushLiteral(segs, lit), ends |-> ends]
        ELSE CompileError("unterminated variable")
    ELSE IF EndsMarker(state, t[i]) THEN
        ScanFrom(t, i + 1, "InLiteral", <<>>, <<>>, Append(segs, Variable(body)), Append(ends, i))
    ELSE IF state = "InLiteral" THEN
        IF t[i] = "<<"
        THEN ScanFrom(t, i + 1, "InMarker", <<>>, <<>>, FlushLiteral(segs, lit), ends)
        ELSE ScanFrom(t, i + 1, "InLiteral", Append(lit, t[i]), body, segs, ends)
    ELSE IF state = "InMarker" THEN
        IF t[i] = "\\"
        THEN ScanFrom(t, i + 1, "InMarkerEscaped", lit, body, segs, ends)
        ELSE IF t[i] = "<<"
        THEN CompileError("invalid match pattern")
        ELSE ScanFrom(t, i + 1, "InMarker", lit, Append(body, t[i]), segs, ends)
    ELSE \* InMarkerEscaped: the token is taken literally
        ScanFrom(t, i + 1, "InMarker", lit, Append(body, t[i]), segs, ends)

compileTemplate(templateBytes) ==
    IF templateBytes = <<>> THEN CompileError("empty template")
    ELSE ScanFrom(templateBytes, 1, "InLiteral", <<>>, <<>>, <<>>, <<>>)

\* the segments, concatenated left to right, match exactly s
RECURSIVE MatchesExact(_, _)
MatchesExact(segs, s) ==
    IF segs = <<>> THEN s = <<>>
    ELSE LET g == Head(segs) IN
         IF g.kind = "Variable" /\ g.text = <<>>
         THEN \E k \in 0..Len(s) : MatchesExact(Tail(segs), SubSeq(s, k + 1, Len(s)))
         ELSE /\ HasPrefix(s, g.text)
              /\ MatchesExact(Tail(segs), SubSeq(s, Len(g.text) + 1, Len(s)))

\* the compiled pattern tolerates leading and trailing text
Matches(segs, s) ==
    \E i \in 0..Len(s) : \E j \in i..Len(s) : MatchesExact(segs, SubSeq(s, i + 1, j))

----------------------------------------------------------------------------
(* Static-Block Extractor (spec 4.3) *)

MinBlockLen == 2

\* an extractor that lets a block run across a variable
RECURSIVE MergedBlocks(_, _)
MergedBlocks(segs, acc) ==
    IF segs = <<>> THEN (IF Len(acc) >= MinBlockLen THEN <<acc>> ELSE <<>>)
    ELSE IF Head(segs).kind = "Literal"
    THEN MergedBlocks(Tail(segs), acc \o Head(segs).text)
    ELSE MergedBlocks(Tail(segs), acc)

RECURSIVE BlocksFrom(_, _)
BlocksFrom(segs, acc) ==
    IF segs = <<>> THEN (IF Len(acc) >= MinBlockLen THEN <<acc>> ELSE <<>>)
    ELSE IF Head(segs).kind = "Literal"
    THEN BlocksFrom(Tail(segs), acc \o Head(segs).text)
    ELSE (IF Len(acc) >= MinBlockLen THEN <<acc>> ELSE <<>>) \o BlocksFrom(Tail(segs), <<>>)

extractStaticBlocks(segs) == BlocksFrom(segs, <<>>)

----------------------------------------------------------------------------
(* Validator (spec 4.4) *)

ValidationError(stage) == [err |-> stage, staticBlocks |-> <<>>]

validate(templateBytes, textBytes) ==
    LET c == compileTemplate(templateBytes)
        n == Normalize(textBytes, FALSE)
        blocks == extractStaticBlocks(c.segs)
    IN  IF ~c.ok THEN ValidationError("compile")
        ELSE IF ~Matches(c.segs, n) THEN ValidationError("match")
        ELSE IF \E k \in 1..Len(blocks) : ~IsSubstring(blocks[k], n)
        THEN ValidationError("staticBlockConsistency")
        ELSE [err |-> "", staticBlocks |-> blocks]

\* Matching Engine (spec 4.5): the precheck of one catalog entry
PrecheckPasses(staticBlocks, doc) ==
    \A k \in 1..Len(staticBlocks) : IsSubstring(staticBlocks[k], Normalize(doc, FALSE))

TemplateTokens == {"a", " ", "<<", ">>", "\\"}
DocTokens == {"a", " ", ">>"}
Templates == SeqsUpTo(TemplateTokens, MaxTemplateLen)
Docs == SeqsUpTo(DocTokens, MaxDocLen)

NotRun == [err |-> "not run", staticBlocks |-> <<>>]

----------------------------------------------------------------------------
(* Idle values of the parts a specification does not use *)

NoResources == [built |-> FALSE]
NoRead == [op |-> "none"]
NoSources == [read |-> FALSE]

\* A path is a sequence of elements; an absolute path starts with an
\* element that starts with "/".  RootDir is the directory that holds the
\* importer and resources packages.
RootDir == <<"/src">>

ImportIdle ==
    /\ pc = "idle" /\ ret = "none" /\ templateDEs = <<>> /\ idx = 0
    /\ errorCount = 0 /\ log = <<>> /\ destDirs = {} /\ destFiles = {}
    /\ licenseIds = <<>> /\ idIdx = 0 /\ des = <<>> /\ deIdx = 0 /\ clog = <<>>
    /\ called = <<>> /\ sources = NoSources

ValidateIdle == vTemplate = <<>> /\ vText = <<>> /\ vResult = NotRun

ResourcesIdle == res = NoResources /\ reads = NoRead /\ cwd = RootDir

DefaultCfg == [addAll |-> "", spdxPath |-> "", spdx |-> "default",
               customPath |-> "", custom |-> "default"]

----------------------------------------------------------------------------
(* Files.  A read delivers bytes or an error; the destination is a set of *)
(* files [dir, name, bytes, old], old marking what was there before the    *)
(* import started.                                                         *)

ReadError == [err |-> TRUE, bytes |-> <<>>]
ReadOutcomes(S) == {[err |-> FALSE, bytes |-> b] : b \in S} \cup {ReadError}

File(dir, name, bytes) == [dir |-> dir, name |-> name, bytes |-> bytes, old |-> FALSE]
OldFile(dir) == [dir |-> dir, name |-> <<"old">>, bytes |-> <<"old">>, old |-> TRUE]

\* os.WriteFile: creates or truncates the file
WriteFile(files, dir, name, bytes) ==
    {f \in files : ~(f.dir = dir /\ f.name = name)} \cup {File(dir, name, bytes)}

RECURSIVE WriteAll(_, _)
WriteAll(files, ws) ==
    IF ws = <<>> THEN files
    ELSE WriteAll(WriteFile(files, ws[1].dir, ws[1].name, ws[1].bytes), Tail(ws))

\* os.MkdirAll: the directory and its parents
WithParents(dir) == {SubSeq(dir, 1, k) : k \in 1..Len(dir)}

\* os.ReadDir(dir) returns at least one entry
NotEmpty(dir, dirs, files) ==
    \/ \E f \in files : f.dir = dir
    \/ \E d \in dirs : Len(d) = Len(dir) + 1 /\ HasPrefix(d, dir)

NoIOError == [at |-> 0, op |-> "none"]
IOErrors(n) == {NoIOError} \cup {[at |-> k, op |-> o] : k \in 1..n, o \in {"mkdir", "readdir"}}

\* mkdirAll: for each dir in order: create it, read it, require it empty
RECURSIVE mkdirAllFrom(_, _, _, _, _)
mkdirAllFrom(dirs, k, io, dd, files) ==
    IF k > Len(dirs) THEN [err |-> "", dirs |-> dd]
    ELSE IF io.at = k /\ io.op = "mkdir" THEN [err |-> "err_mkdir", dirs |-> dd]
    ELSE LET made == dd \cup WithParents(dirs[k]) IN
         IF io.at = k /\ io.op = "readdir" THEN [err |-> "err_readdir", dirs |-> made]
         ELSE IF NotEmpty(dirs[k], made, files) THEN [err |-> "err_not_empty", dirs |-> made]
         ELSE mkdirAllFrom(dirs, k + 1, io, made, files)

mkdirAll(dirs, io, dd, files) == mkdirAllFrom(dirs, 1, io, dd, files)

SPDXDirs == << <<"template">>, <<"precheck">>, <<"json">>, <<"testdata">>,
               <<"testdata", "invalid">> >>

MkdirAllSPDX(io, dd, files) == mkdirAll(SPDXDirs, io, dd, files)

CustomDir(id) == <<"license_patterns">> \o id

MkdirAllCustom(id, io, dd, files) == mkdirAll(<<CustomDir(id)>>, io, dd, files)

----------------------------------------------------------------------------
(* importSPDX: one template entry *)

MaxEntries == 3

TemplateSuffix == <<".template.txt">>
deprecatedPrefix == <<"deprecated_">>

\* names a template source directory may hold, in the order os.ReadDir
\* returns them (sorted by file name)
NameOrder == << <<"A">>, <<"A", ".template.txt">>, <<"B", ".template.txt">>,
                <<"deprecated_", "A", ".template.txt">> >>

\* the subsequences of s with at most n elements
RECURSIVE SubSeqsOf(_, _)
SubSeqsOf(s, n) ==
    IF s = <<>> \/ n = 0 THEN {<<>>}
    ELSE SubSeqsOf(Tail(s), n) \cup {<<Head(s)>> \o r : r \in SubSeqsOf(Tail(s), n - 1)}

DirListings == SubSeqsOf(NameOrder, MaxEntries)

TemplateFiles == {<<"a", "a">>, <<"<<", "a">>}
TextFiles == {<<"a", "a">>, <<"a">>}

IdOf(templateName) == TrimSuffix(templateName, TemplateSuffix)
PrecheckNameOf(id) == id \o <<".json">>
TextNameOf(id) == id \o <<".txt">>

RECURSIVE JoinBlocks(_)
JoinBlocks(blocks) ==
    IF blocks = <<>> THEN <<>>
    ELSE IF Len(blocks) = 1 THEN blocks[1]
    ELSE blocks[1] \o <<",">> \o JoinBlocks(Tail(blocks))

\* the static blocks serialized as a JSON array
getPreChecksBytes(staticBlocks) == <<"[">> \o JoinBlocks(staticBlocks) \o <<"]">>

\* where writeSPDXFiles stops: nowhere, or at the step that fails
WriteFailures == {"none", "template", "testdata", "precheckBytes", "precheck"}

writeSPDXFiles(templateName, templateBytes, textName, textBytes, precheckName, staticBlocks, wf) ==
    LET w1 == <<[dir |-> <<"template">>, name |-> templateName, bytes |-> templateBytes]>>
        w2 == <<[dir |-> <<"testdata">>, name |-> textName, bytes |-> textBytes]>>
        w3 == <<[dir |-> <<"precheck">>, name |-> precheckName,
                 bytes |-> getPreChecksBytes(staticBlocks)]>>
    IN  IF wf = "template" THEN [err |-> TRUE, writes |-> <<>>]
        ELSE IF wf = "testdata" THEN [err |-> TRUE, writes |-> w1]
        ELSE IF wf \in {"precheckBytes", "precheck"} THEN [err |-> TRUE, writes |-> w1 \o w2]
        ELSE [err |-> FALSE, writes |-> w1 \o w2 \o w3]

\* writeInvalidSPDXFiles: write errors are logged and dropped
InvalidWriteFailures == SUBSET {"template", "text"}

writeInvalidSPDXFiles(templateName, templateBytes, textName, textBytes, iwf) ==
    (IF "template" \in iwf THEN <<>>
     ELSE <<[dir |-> <<"testdata", "invalid">>, name |-> templateName, bytes |-> templateBytes]>>)
    \o
    (IF "text" \in iwf THEN <<>>
     ELSE <<[dir |-> <<"testdata", "invalid">>, name |-> textName, bytes |-> textBytes]>>)

\* the condition of the deprecated fallback
NeedsRetry(id, firstErr) == firstErr /\ HasPrefix(id, deprecatedPrefix)

\* a loop that forgets to count
CountUnchanged(count) == count

CountFailure(count) == count + 1

\* a loop that publishes whatever it validated
AdmitAlways(err) == TRUE

\* an entry is written to the catalog only when the last validate call
\* returned no error
Admit(err) == ~err

Entry(name, first, retry, outcome) ==
    [name |-> name, id |-> IdOf(name), first |-> first, retry |-> retry, outcome |-> outcome]

\* The body of the loop of importSPDX for the entry templateName, given what
\* the reads deliver (tRd, xRd, altRd) and where the writes fail (wf, iwf).
\* Returns [abort, entry, errorCount, writes].
importSPDXEntry(templateName, tRd, xRd, altRd, wf, iwf, count) ==
    LET id == IdOf(templateName)
        precheckName == PrecheckNameOf(id)
        textName == TextNameOf(id)
        Abort(first, retry, ws, why) ==
            [abort |-> TRUE, entry |-> Entry(templateName, first, retry, why),
             errorCount |-> count, writes |-> ws]
        Publish(first, retry, textBytes, staticBlocks) ==
            LET w == writeSPDXFiles(templateName, tRd.bytes, textName, textBytes,
                                    precheckName, staticBlocks, wf)
            IN  IF w.err THEN Abort(first, retry, w.writes, "abort_write")
                ELSE [abort |-> FALSE, entry |-> Entry(templateName, first, retry, "published"),
                      errorCount |-> count, writes |-> w.writes]
        Invalid(first, retry, textBytes) ==
            [abort |-> FALSE, entry |-> Entry(templateName, first, retry, "invalid"),
             errorCount |-> CountFailure(count),
             writes |-> writeInvalidSPDXFiles(templateName, tRd.bytes, textName, textBytes, iwf)]
    IN  IF tRd.err \/ xRd.err THEN Abort("none", "none", <<>>, "abort_read")
        ELSE LET v1 == validate(tRd.bytes, xRd.bytes) IN
             IF v1.err = "" THEN
                 IF Admit(FALSE) THEN Publish("ok", "none", xRd.bytes, v1.staticBlocks)
                 ELSE Invalid("ok", "none", xRd.bytes)
             ELSE IF NeedsRetry(id, TRUE) THEN
                 IF altRd.err THEN Abort("fail", "readerr", <<>>, "abort_read")
                 ELSE LET v2 == validate(tRd.bytes, altRd.bytes) IN
                      IF Admit(v2.err # "")
                      THEN Publish("fail", IF v2.err = "" THEN "ok" ELSE "fail",
                                   altRd.bytes, v2.staticBlocks)
                      ELSE Invalid("fail", "fail", altRd.bytes)
             ELSE IF Admit(TRUE) THEN Publish("fail", "none", xRd.bytes, v1.staticBlocks)
             ELSE Invalid("fail", "none", xRd.bytes)

----------------------------------------------------------------------------
(* Import and importSPDX *)

DefaultResource == "default"

Cfgs == [addAll : {"", "in"}, spdxPath : {"", "out"}, spdx : {DefaultResource, "3.21"},
         customPath : {"", "out"}, custom : {DefaultResource, "mine"}]

doImportSPDX(c) == c.spdxPath # "" \/ c.spdx # DefaultResource
doImportCustom(c) == c.customPath # "" \/ c.custom # DefaultResource

\* what was in the destination before the import
AllDestDirs == {SPDXDirs[k] : k \in 1..Len(SPDXDirs)} \cup {<<"license_patterns", "x">>, <<"license_patterns", "y">>}
PreDests == {{}} \cup {{OldFile(d)} : d \in AllDestDirs}

Return(r) ==
    /\ pc' = "done"
    /\ ret' = r

\* a check that lets two non-default destinations through
ImportCheckNeitherOnly(c) ==
    IF c.addAll = "" THEN "nil"
    ELSE IF ~doImportCustom(c) /\ ~doImportSPDX(c) THEN "err_destination"
    ELSE ""

\* Import before it runs an importer: what it returns at once, "" when it
\* goes on to the importers
ImportCheck(c) ==
    IF c.addAll = "" THEN "nil"
    ELSE IF ~doImportCustom(c) /\ ~doImportSPDX(c) THEN "err_destination"
    ELSE IF doImportCustom(c) /\ doImportSPDX(c) THEN "err_destination"
    ELSE ""

\* Import: nothing to import
ImportNothing ==
    /\ pc = "idle"
    /\ ImportCheck(cfg) = "nil"
    /\ Return("nil")
    /\ UNCHANGED <<cfg, templateDEs, idx, errorCount, log, destDirs, destFiles,
                   licenseIds, idIdx, des, deIdx, clog, called, sources,
                   validateVars, resourceVars>>

\* Import: no non-default destination, or two of them
ImportRejected ==
    /\ pc = "idle"
    /\ ImportCheck(cfg) \notin {"", "nil"}
    /\ Return(ImportCheck(cfg))
    /\ UNCHANGED <<cfg, templateDEs, idx, errorCount, log, destDirs, destFiles,
                   licenseIds, idIdx, des, deIdx, clog, called, sources,
                   validateVars, resourceVars>>

\* what reading a JSON source or the template source directory delivers
JSONOutcomes == {"err_read", "err_unmarshal", "v1", "v2"}
DirOutcomes == {[err |-> TRUE, entries |-> <<>>]} \cup {[err |-> FALSE, entries |-> l] : l \in DirListings}

\* checks that let an empty template source directory through
SourceErrorEmptyAllowed(lic, exc, dir) ==
    IF lic = "err_read" THEN "err_read_licenses"
    ELSE IF lic = "err_unmarshal" THEN "err_unmarshal_licenses"
    ELSE IF exc = "err_read" THEN "err_read_exceptions"
    ELSE IF exc = "err_unmarshal" THEN "err_unmarshal_exceptions"
    ELSE IF lic # exc THEN "err_version"
    ELSE IF dir.err THEN "err_readdir_templates"
    ELSE ""

\* the checks importSPDX makes on its sources, in order; "" when all pass
SourceError(lic, exc, dir) ==
    IF lic = "err_read" THEN "err_read_licenses"
    ELSE IF lic = "err_unmarshal" THEN "err_unmarshal_licenses"
    ELSE IF exc = "err_read" THEN "err_read_exceptions"
    ELSE IF exc = "err_unmarshal" THEN "err_unmarshal_exceptions"
    ELSE IF lic # exc THEN "err_version"
    ELSE IF dir.err THEN "err_readdir_templates"
    ELSE IF Len(dir.entries) < 1 THEN "err_empty_templates"
    ELSE ""

\* what importSPDX has read of its sources when it stops or goes on: the
\* reads are made in order and stop at the first error
Unread == "unread"
UnreadDir == [err |-> FALSE, entries |-> <<Unread>>]

SourcesRead(lic, exc, dir) ==
    LET e == SourceError(lic, exc, dir)
        atLicenses == e \in {"err_read_licenses", "err_unmarshal_licenses"}
        atExceptions == e \in {"err_read_exceptions", "err_unmarshal_exceptions"}
    IN  [read |-> TRUE,
         licenses |-> lic,
         exceptions |-> IF atLicenses THEN Unread ELSE exc,
         templates |-> IF atLicenses \/ atExceptions \/ e = "err_version" THEN UnreadDir ELSE dir]

\* importSPDX up to the loop: sources, MkdirAllSPDX, the two JSON files
ImportSPDXStart ==
    /\ pc = "idle"
    /\ ImportCheck(cfg) = ""
    /\ doImportSPDX(cfg)
    /\ called' = Append(called, "importSPDX")
    /\ \E lic \in JSONOutcomes, exc \in JSONOutcomes, dir \in DirOutcomes,
          io \in IOErrors(Len(SPDXDirs)), jsonFail \in {"none", "licenses", "exceptions"} :
        LET srcErr == SourceError(lic, exc, dir)
            mk == MkdirAllSPDX(io, destDirs, destFiles)
            w1 == WriteFile(destFiles, <<"json">>, <<"licenses.json">>, <<lic>>)
            w2 == WriteFile(w1, <<"json">>, <<"exceptions.json">>, <<exc>>)
        IN  /\ sources' = SourcesRead(lic, exc, dir)
            /\ IF srcErr # "" THEN
                   /\ Return(srcErr)
                   /\ UNCHANGED <<templateDEs, destDirs, destFiles>>
               ELSE IF mk.err # "" THEN
                   /\ Return(mk.err)
                   /\ destDirs' = mk.dirs
                   /\ UNCHANGED <<templateDEs, destFiles>>
               ELSE IF jsonFail = "licenses" THEN
                   /\ Return("err_write")
                   /\ destDirs' = mk.dirs
                   /\ UNCHANGED <<templateDEs, destFiles>>
               ELSE IF jsonFail = "exceptions" THEN
                   /\ Return("err_write")
                   /\ destDirs' = mk.dirs
                   /\ destFiles' = w1
                   /\ UNCHANGED templateDEs
               ELSE
                   /\ pc' = "spdx_loop"
                   /\ ret' = ret
                   /\ templateDEs' = dir.entries
                   /\ destDirs' = mk.dirs
                   /\ destFiles' = w2
    /\ UNCHANGED <<cfg, idx, errorCount, log, licenseIds, idIdx, des, deIdx, clog,
                   validateVars, resourceVars>>

\* What the environment decides in one iteration: only the reads and writes
\* the iteration gets to.
TextReads(tRd) == IF tRd.err THEN {ReadError} ELSE ReadOutcomes(TextFiles)

AltTextReads(name, tRd, xRd) ==
    IF importSPDXEntry(name, tRd, xRd, ReadError, "none", {}, 0).entry.retry = "readerr"
    THEN ReadOutcomes(TextFiles) ELSE {ReadError}

WritesTried(name, tRd, xRd, altRd) ==
    IF importSPDXEntry(name, tRd, xRd, altRd, "none", {}, 0).entry.outcome = "published"
    THEN WriteFailures ELSE {"none"}

InvalidWritesTried(name, tRd, xRd, altRd) ==
    IF importSPDXEntry(name, tRd, xRd, altRd, "none", {}, 0).entry.outcome = "invalid"
    THEN InvalidWriteFailures ELSE {{}}

\* importSPDX: one iteration of the loop over templateDEs, and the return
\* after the last one
ImportSPDXEntry ==
    /\ pc = "spdx_loop"
    /\ idx < Len(templateDEs)
    /\ \E tRd \in ReadOutcomes(TemplateFiles) :
       \E xRd \in TextReads(tRd) :
       \E altRd \in AltTextReads(templateDEs[idx + 1], tRd, xRd) :
       \E wf \in WritesTried(templateDEs[idx + 1], tRd, xRd, altRd) :
       \E iwf \in InvalidWritesTried(templateDEs[idx + 1], tRd, xRd, altRd) :
        LET r == importSPDXEntry(templateDEs[idx + 1], tRd, xRd, altRd, wf, iwf, errorCount)
        IN  /\ log' = Append(log, r.entry)
            /\ destFiles' = WriteAll(destFiles, r.writes)
            /\ errorCount' = r.errorCount
            /\ IF r.abort THEN
                   /\ Return("err_io")
                   /\ idx' = idx
               ELSE IF idx + 1 = Len(templateDEs) THEN
                   /\ Return(IF r.errorCount > 0 THEN "err_count" ELSE "nil")
                   /\ idx' = idx + 1
               ELSE
                   /\ pc' = "spdx_loop"
                   /\ ret' = ret
                   /\ idx' = idx + 1
    /\ UNCHANGED <<cfg, templateDEs, destDirs, licenseIds, idIdx, des, deIdx, clog,
                   called, sources, validateVars, resourceVars>>

----------------------------------------------------------------------------
(* importCustom *)

MaxIds == 2

IdOrder == << <<"x">>, <<"y">>, <<"z">> >>
IdListings == SubSeqsOf(IdOrder, MaxIds)

LicenseInfoJSON == <<"license_", "info", ".json">>
PrimaryPattern == <<"license_">>
AssociatedPattern == <<"associated_">>
OptionalPattern == <<"optional_">>

DirEntry(name, isDir) == [name |-> name, isDir |-> isDir]

\* listings of one custom license directory, sorted by file name
CustomListings ==
    { <<>>,
      <<DirEntry(LicenseInfoJSON, FALSE)>>,
      <<DirEntry(<<"LICENSE_", "p", ".txt">>, FALSE), DirEntry(LicenseInfoJSON, FALSE)>>,
      <<DirEntry(<<"associated_", "p">>, FALSE), DirEntry(<<"sub">>, TRUE)>>,
      <<DirEntry(<<"optional_", "p", ".txt">>, FALSE), DirEntry(<<"readme", ".md">>, FALSE)>> }

CustomDirOutcomes ==
    {[err |-> TRUE, entries |-> <<>>]} \cup {[err |-> FALSE, entries |-> l] : l \in CustomListings}

PatternFiles == {<<"a", "a">>, <<"<<", "a">>}

LowerToken(tok) == IF tok = "LICENSE_" THEN "license_" ELSE tok
ToLower(name) == [k \in 1..Len(name) |-> LowerToken(name[k])]

ExtTokens == {".txt", ".json", ".md"}
Ext(f) == IF Len(f) > 0 /\ f[Len(f)] \in ExtTokens THEN <<f[Len(f)]>> ELSE <<>>

\* "prechecks_" + base, its extension replaced by ".json"
PrechecksNameOf(base) ==
    LET f == <<"prechecks_">> \o base
    IN  SubSeq(f, 1, Len(f) - Len(Ext(f))) \o <<".json">>

IsPatternName(lowerFileName) ==
    \/ HasPrefix(lowerFileName, PrimaryPattern)
    \/ HasPrefix(lowerFileName, AssociatedPattern)
    \/ HasPrefix(lowerFileName, OptionalPattern)

CustomWriteFailures == {"none", "file", "precheckBytes", "precheck"}

CEntry(id, name, kind, normErr, reErr, outcome) ==
    [id |-> id, name |-> name, kind |-> kind, normErr |-> normErr, reErr |-> reErr,
     outcome |-> outcome]

\* The body of the inner loop of importCustom for the entry de of the
\* directory of id, given what the read delivers (rd), whether
\* ReadLicenseInfoJSON fails (unmarshalErr), whether NormalizeText fails
\* (normErr) and where the writes fail (wf).  Returns [err, entry, writes].
importCustomFile(id, de, rd, unmarshalErr, normErr, wf) ==
    LET fileName == de.name
        base == fileName
        lowerFileName == ToLower(fileName)
        dir == CustomDir(id)
        Result(err, kind, nErr, reErr, ws) ==
            [err |-> err,
             entry |-> CEntry(id, fileName, kind, nErr, reErr,
                              IF err # "" THEN "abort" ELSE IF ws = <<>> THEN "skipped" ELSE "published"),
             writes |-> ws]
        wFile == <<[dir |-> dir, name |-> fileName, bytes |-> rd.bytes]>>
    IN  IF de.isDir THEN Result("", "dir", FALSE, FALSE, <<>>)
        ELSE IF lowerFileName = LicenseInfoJSON THEN
            IF rd.err THEN Result("err_read", "info", FALSE, FALSE, <<>>)
            ELSE IF unmarshalErr THEN Result("err_unmarshal", "info", FALSE, FALSE, <<>>)
            ELSE IF wf = "file" THEN Result("err_write", "info", FALSE, FALSE, <<>>)
            ELSE Result("", "info", FALSE, FALSE, wFile)
        ELSE IF IsPatternName(lowerFileName) THEN
            IF rd.err THEN Result("err_read", "pattern", FALSE, FALSE, <<>>)
            ELSE LET normalizedText == IF normErr THEN <<>> ELSE Normalize(rd.bytes, TRUE)
                     re == compileTemplate(normalizedText)
                     reErr == ~normErr /\ ~re.ok
                     staticBlocks == extractStaticBlocks(re.segs)
                     wPre == <<[dir |-> dir, name |-> PrechecksNameOf(base),
                                bytes |-> getPreChecksBytes(staticBlocks)]>>
                 IN  IF reErr THEN Result("err_regex", "pattern", normErr, TRUE, <<>>)
                     ELSE IF wf = "file" THEN Result("err_write", "pattern", normErr, FALSE, <<>>)
                     ELSE IF wf \in {"precheckBytes", "precheck"}
                     THEN Result("err_write", "pattern", normErr, FALSE, wFile)
                     ELSE Result("", "pattern", normErr, FALSE, wFile \o wPre)
        ELSE Result("", "other", FALSE, FALSE, <<>>)

IdsOutcomes ==
    {[err |-> TRUE, ids |-> <<>>]} \cup {[err |-> FALSE, ids |-> l] : l \in IdListings}

\* importCustom up to the loop: the input configuration, the input
\* resources, the list of ids (its error is not looked at)
ImportCustomStart ==
    /\ pc = "idle"
    /\ ImportCheck(cfg) = ""
    /\ doImportCustom(cfg)
    /\ called' = Append(called, "importCustom")
    /\ \E initErr \in BOOLEAN, idsRd \in IdsOutcomes :
        IF initErr THEN
            /\ Return("err_config")
            /\ UNCHANGED <<licenseIds, clog>>
        ELSE
            /\ licenseIds' = idsRd.ids
            /\ clog' = Append(clog, CEntry(<<>>, <<>>, "ids", FALSE, FALSE,
                                           IF idsRd.err THEN "error" ELSE "listed"))
            /\ IF idsRd.ids = <<>>
               THEN Return("nil")
               ELSE pc' = "custom_id" /\ ret' = ret
    /\ UNCHANGED <<cfg, templateDEs, idx, errorCount, log, destDirs, destFiles,
                   idIdx, des, deIdx, sources, validateVars, resourceVars>>

\* after the last entry of an id: the next id, or return nil after the last
NextId ==
    /\ idIdx' = idIdx + 1
    /\ IF idIdx + 1 = Len(licenseIds)
       THEN Return("nil")
       ELSE pc' = "custom_id" /\ ret' = ret

\* importCustom: the head of one iteration of the loop over licenseIds
ImportCustomId ==
    /\ pc = "custom_id"
    /\ idIdx < Len(licenseIds)
    /\ \E dirRd \in CustomDirOutcomes, io \in IOErrors(1) :
        LET id == licenseIds[idIdx + 1]
            mk == MkdirAllCustom(id, io, destDirs, destFiles)
        IN  IF dirRd.err THEN
                /\ Return("err_readdir_id")
                /\ clog' = Append(clog, CEntry(id, <<>>, "id", FALSE, FALSE, "abort"))
                /\ UNCHANGED <<destDirs, des, deIdx, idIdx>>
            ELSE IF mk.err # "" THEN
                /\ Return(mk.err)
                /\ clog' = Append(clog, CEntry(id, <<>>, "id", FALSE, FALSE, "abort"))
                /\ destDirs' = mk.dirs
                /\ UNCHANGED <<des, deIdx, idIdx>>
            ELSE
                /\ clog' = Append(clog, CEntry(id, <<>>, "id", FALSE, FALSE, "prepared"))
                /\ destDirs' = mk.dirs
                /\ deIdx' = 0
                /\ IF dirRd.entries = <<>>
                   THEN des' = <<>> /\ NextId
                   ELSE des' = dirRd.entries /\ pc' = "custom_file" /\ ret' = ret /\ idIdx' = idIdx
    /\ UNCHANGED <<cfg, templateDEs, idx, errorCount, log, destFiles, licenseIds,
                   called, sources, validateVars, resourceVars>>

\* What the environment decides in one iteration of the inner loop: only
\* the calls the iteration gets to.
UnmarshalTried(id, de, rd) ==
    IF importCustomFile(id, de, rd, FALSE, FALSE, "none").entry.kind = "info" /\ ~rd.err
    THEN BOOLEAN ELSE {FALSE}

NormalizeTried(id, de, rd) ==
    IF importCustomFile(id, de, rd, FALSE, FALSE, "none").entry.kind = "pattern" /\ ~rd.err
    THEN BOOLEAN ELSE {FALSE}

CustomWritesTried(id, de, rd, unmarshalErr, normErr) ==
    IF importCustomFile(id, de, rd, unmarshalErr, normErr, "none").entry.outcome = "published"
    THEN CustomWriteFailures ELSE {"none"}

\* importCustom: one iteration of the loop over des
ImportCustomFile ==
    /\ pc = "custom_file"
    /\ deIdx < Len(des)
    /\ \E rd \in ReadOutcomes(PatternFiles) :
       \E unmarshalErr \in UnmarshalTried(licenseIds[idIdx + 1], des[deIdx + 1], rd) :
       \E normErr \in NormalizeTried(licenseIds[idIdx + 1], des[deIdx + 1], rd) :
       \E wf \in CustomWritesTried(licenseIds[idIdx + 1], des[deIdx + 1], rd, unmarshalErr, normErr) :
        LET r == importCustomFile(licenseIds[idIdx + 1], des[deIdx + 1], rd, unmarshalErr, normErr, wf)
        IN  /\ clog' = Append(clog, r.entry)
            /\ destFiles' = WriteAll(destFiles, r.writes)
            /\ IF r.err # "" THEN
                   /\ Return(r.err)
                   /\ UNCHANGED <<deIdx, idIdx>>
               ELSE IF deIdx + 1 = Len(des) THEN
                   /\ deIdx' = deIdx + 1
                   /\ NextId
               ELSE
                   /\ deIdx' = deIdx + 1
                   /\ pc' = "custom_file" /\ ret' = ret /\ idIdx' = idIdx
    /\ UNCHANGED <<cfg, templateDEs, idx, errorCount, log, destDirs, licenseIds, des,
                   called, sources, validateVars, resourceVars>>

----------------------------------------------------------------------------
(* Specification of Import: one call, from a configuration and a          *)
(* destination that may hold an earlier import.                            *)

DirsOf(files) == UNION {WithParents(f.dir) : f \in files}

Init ==
    /\ cfg \in Cfgs
    /\ pc = "idle" /\ ret = "none"
    /\ templateDEs = <<>> /\ idx = 0 /\ errorCount = 0 /\ log = <<>>
    /\ destFiles \in PreDests
    /\ destDirs = DirsOf(destFiles)
    /\ licenseIds = <<>> /\ idIdx = 0 /\ des = <<>> /\ deIdx = 0 /\ clog = <<>>
    /\ called = <<>> /\ sources = NoSources
    /\ ValidateIdle /\ ResourcesIdle

Next ==
    \/ ImportNothing
    \/ ImportRejected
    \/ ImportSPDXStart
    \/ ImportSPDXEntry
    \/ ImportCustomStart
    \/ ImportCustomId
    \/ ImportCustomFile

Spec == Init /\ [][Next]_vars

----------------------------------------------------------------------------
(* The resources package read side (resources.go).  A Resources value     *)
(* holds the pointer to the configuration; selectedSpdx / selectedCustom   *)
(* remember what getFileReader gave when NewResources ran.                 *)

SpdxPathFlag == "spdxPath"
SpdxFlag == "spdx"
CustomPathFlag == "customPath"
CustomFlag == "custom"

getFileReader(c, pathFlag, embeddedFlag) ==
    IF c[pathFlag] = ""
    THEN [reader |-> "embeddedFS", path |-> <<embeddedFlag, c[embeddedFlag]>>]
    ELSE [reader |-> "ReaderReader", path |-> <<c[pathFlag]>>]

getSPDXReader(c) == getFileReader(c, SpdxPathFlag, SpdxFlag)
getCustomReader(c) == getFileReader(c, CustomPathFlag, CustomFlag)

getSPDXTemplateFilePath(id, isDeprecated, templatePath) ==
    templatePath \o (IF isDeprecated THEN <<"deprecated_">> ELSE <<>>) \o id \o <<".template.txt">>

getSPDXPreCheckFilePath(id, isDeprecated, preCheckPath) ==
    preCheckPath \o (IF isDeprecated THEN <<"deprecated_">> ELSE <<>>) \o id \o <<".json">>

NewResources(c) ==
    [built |-> TRUE, selectedSpdx |-> getSPDXReader(c), selectedCustom |-> getCustomReader(c)]

\* path.IsAbs
AbsElements == {"/src", "/home", "/abs"}
IsAbs(p) == p # <<>> /\ p[1] \in AbsElements

\* path.Clean: an element followed by ".." is dropped with it
RECURSIVE CleanFrom(_, _)
CleanFrom(done, rest) ==
    IF rest = <<>> THEN done
    ELSE IF Head(rest) = ".." /\ done # <<>> /\ done[Len(done)] # ".."
    THEN CleanFrom(SubSeq(done, 1, Len(done) - 1), Tail(rest))
    ELSE CleanFrom(Append(done, Head(rest)), Tail(rest))

\* path.Join
Join(a, b) == CleanFrom(<<>>, a \o b)

\* the directory of resources.go
thisDir == RootDir \o <<"resources">>

getResourcesWritePath(c, pathFlag, embeddedFlag) ==
    IF c[pathFlag] = "" THEN Join(thisDir, <<embeddedFlag, c[embeddedFlag]>>)
    ELSE IF IsAbs(<<c[pathFlag]>>) THEN <<c[pathFlag]>>
    ELSE Join(thisDir, <<"..", c[pathFlag]>>)

\* the directory WriteSPDXFile writes a file of the subdirectory ff to
WriteSPDXFileDir(c, ff) == Join(getResourcesWritePath(c, SpdxPathFlag, SpdxFlag), ff)

\* the file a reader opens: os.ReadFile resolves a relative name against
\* the working directory, the embedded file system has no working directory
Opened(reader, wd, file) ==
    IF reader = "ReaderReader" /\ ~IsAbs(file) THEN Join(wd, file) ELSE file

Read(op, family, rr, file) ==
    [op |-> op, family |-> family, reader |-> rr.reader, root |-> rr.path, file |-> file,
     opened |-> Opened(rr.reader, cwd, file)]

FlagValues == {"", "out", "other"}
ReadIds == {<<"A">>, <<"x">>}

NewResourcesCall ==
    /\ res' = NewResources(cfg)
    /\ reads' = NoRead
    /\ UNCHANGED <<cfg, importVars, validateVars, cwd>>

\* cfg.Set(flag, value) by whoever holds the configuration
ConfigSet ==
    /\ \E flag \in {CustomPathFlag, SpdxPathFlag}, v \in FlagValues :
        cfg' = [cfg EXCEPT ![flag] = v]
    /\ UNCHANGED <<importVars, validateVars, resourceVars>>

ReadSPDXJSONFiles ==
    /\ LET rr == getSPDXReader(cfg)
       IN  reads' = Read("ReadSPDXJSONFiles", "spdx", rr, rr.path \o <<"json", "exceptions.json">>)
    /\ UNCHANGED <<cfg, importVars, validateVars, res, cwd>>

ReadSPDXTemplateFile ==
    /\ \E id \in ReadIds, isDeprecated \in BOOLEAN :
        LET rr == getSPDXReader(cfg)
        IN  reads' = Read("ReadSPDXTemplateFile", "spdx", rr,
                          getSPDXTemplateFilePath(id, isDeprecated, Join(rr.path, <<"template">>)))
                     @@ [id |-> id, isDeprecated |-> isDeprecated]
    /\ UNCHANGED <<cfg, importVars, validateVars, res, cwd>>

ReadSPDXPreCheckFile ==
    /\ \E id \in ReadIds, isDeprecated \in BOOLEAN :
        LET rr == getSPDXReader(cfg)
        IN  reads' = Read("ReadSPDXPreCheckFile", "spdx", rr,
                          getSPDXPreCheckFilePath(id, isDeprecated, Join(rr.path, <<"precheck">>)))
                     @@ [id |-> id, isDeprecated |-> isDeprecated]
    /\ UNCHANGED <<cfg, importVars, validateVars, res, cwd>>

ReadCustomLicensePatternIds ==
    /\ res.built
    /\ LET rr == getCustomReader(cfg)
       IN  reads' = Read("ReadCustomLicensePatternIds", "custom", rr,
                         rr.path \o <<"license_patterns">>)
    /\ UNCHANGED <<cfg, importVars, validateVars, res, cwd>>

ReadCustomLicensePatternsDir ==
    /\ res.built
    /\ \E id \in ReadIds :
        LET rr == getCustomReader(cfg)
        IN  reads' = Read("ReadCustomLicensePatternsDir", "custom", rr,
                          rr.path \o <<"license_patterns">> \o id)
    /\ UNCHANGED <<cfg, importVars, validateVars, res, cwd>>

ReadCustomDir ==
    /\ res.built
    /\ \E dir \in ReadIds :
        LET rr == getCustomReader(cfg)
        IN  reads' = Read("ReadCustomDir", "custom", rr, rr.path \o dir)
    /\ UNCHANGED <<cfg, importVars, validateVars, res, cwd>>

ReadCustomFile ==
    /\ res.built
    /\ \E filePath \in ReadIds :
        LET rr == getCustomReader(cfg)
        IN  reads' = Read("ReadCustomFile", "custom", rr, filePath)
    /\ UNCHANGED <<cfg, importVars, validateVars, res, cwd>>

InitResources ==
    /\ cfg \in Cfgs
    /\ ImportIdle /\ ValidateIdle /\ ResourcesIdle

NextResources ==
    \/ NewResourcesCall
    \/ ConfigSet
    \/ ReadCustomLicensePatternIds
    \/ ReadCustomLicensePatternsDir
    \/ ReadCustomDir
    \/ ReadCustomFile
    \/ ReadSPDXJSONFiles
    \/ ReadSPDXTemplateFile
    \/ ReadSPDXPreCheckFile

SpecResources == InitResources /\ [][NextResources]_vars

----------------------------------------------------------------------------
(* Specification of the SPDX write and read paths: under one              *)
(* configuration and one working directory, template source files are     *)
(* published by writeSPDXFiles through WriteSPDXFile and read back by      *)
(* ReadSPDXTemplateFile and ReadSPDXPreCheckFile.  Here a file of          *)
(* destFiles carries its whole directory path.                             *)

PathValues == {"", "out", "/abs"}
PathCfgs == [addAll : {"in"}, spdxPath : PathValues, spdx : {DefaultResource, "3.21"},
             customPath : {""}, custom : {DefaultResource}]
Cwds == {RootDir, <<"/home">>}

\* the template source files of the directory listings
SourceNames == {NameOrder[k] : k \in 1..Len(NameOrder)}

\* writeSPDXFiles for one validated template source file
PublishSPDXFiles ==
    /\ \E templateName \in SourceNames, bytes \in TextFiles :
        LET id == IdOf(templateName)
            v == validate(bytes, bytes)
            w == writeSPDXFiles(templateName, bytes, TextNameOf(id), bytes,
                                PrecheckNameOf(id), v.staticBlocks, "none")
            at == [k \in 1..Len(w.writes) |->
                     [w.writes[k] EXCEPT !.dir = WriteSPDXFileDir(cfg, w.writes[k].dir)]]
        IN  /\ \A k \in 1..Len(log) : log[k].name # templateName
            /\ v.err = ""
            /\ log' = Append(log, Entry(templateName, "ok", "none", "published"))
            /\ destFiles' = WriteAll(destFiles, at)
    /\ UNCHANGED <<cfg, pc, ret, templateDEs, idx, errorCount, destDirs, licenseIds,
                   idIdx, des, deIdx, clog, called, sources, validateVars, resourceVars>>

InitRoundTrip ==
    /\ cfg \in PathCfgs
    /\ ImportIdle /\ ValidateIdle
    /\ res = NoResources /\ reads = NoRead
    /\ cwd \in Cwds

NextRoundTrip ==
    \/ PublishSPDXFiles
    \/ ReadSPDXTemplateFile
    \/ ReadSPDXPreCheckFile

SpecRoundTrip == InitRoundTrip /\ [][NextRoundTrip]_vars

----------------------------------------------------------------------------
(* Specification of the validator: one template and one reference text,   *)
(* validated once.                                                         *)

InitValidate ==
    /\ cfg = DefaultCfg
    /\ ImportIdle /\ ResourcesIdle
    /\ vTemplate \in Templates
    /\ vText \in Docs
    /\ vResult = NotRun

Validate ==
    /\ vResult = NotRun
    /\ vResult' = validate(vTemplate, vText)
    /\ UNCHANGED <<cfg, importVars, vTemplate, vText, resourceVars>>

NextValidate == Validate

SpecValidate == InitValidate /\ [][NextValidate]_vars

----------------------------------------------------------------------------
(* Properties *)

New(dir) == {f \in destFiles : ~f.old /\ f.dir = dir}

ValidatedOK(e) == e.first = "ok" \/ e.retry = "ok"

Failed == {k \in 1..Len(log) : log[k].outcome = "invalid"}

LoopRanOverAll == pc = "done" /\ templateDEs # <<>> /\ idx = Len(templateDEs)

C1_Inv ==
    /\ errorCount = Cardinality(Failed)
    /\ pc = "done" /\ errorCount >= 1 => ret \notin {"nil", "none"}
    /\ LoopRanOverAll =>
        /\ Len(log) = Len(templateDEs)
        /\ \A k \in 1..Len(log) :
            /\ log[k].name = templateDEs[k]
            /\ log[k].first # "none"
            /\ ValidatedOK(log[k]) =>
                /\ \E f \in New(<<"template">>) : f.name = log[k].name
                /\ \E f \in New(<<"precheck">>) : f.name = PrecheckNameOf(log[k].id)
        /\ ret = IF errorCount >= 1 THEN "err_count" ELSE "nil"

C1_Step ==
    (Len(log') = Len(log) + 1 /\ log'[Len(log')].outcome = "invalid") =>
        /\ idx' = idx + 1
        /\ errorCount' = errorCount + 1
        /\ pc' = "spdx_loop" \/ LoopRanOverAll'

\* C1: in importSPDX a template whose validation fails (after the deprecated
\* fallback) does not stop the batch: the iteration counts the failure and
\* the loop goes on to the next entry; when the loop has run over all
\* entries every entry has been validated, every valid one is published,
\* errorCount is the number of templates whose validation failed, and
\* importSPDX returns an error if that count is at least 1.
C1_ValidationFailureNeverStopsBatch == []C1_Inv /\ [][C1_Step]_vars

C1_Witness ==
    /\ LoopRanOverAll
    /\ errorCount >= 1
    /\ \E k \in 1..Len(log) : \E j \in (k + 1)..Len(log) :
        log[k].outcome = "invalid" /\ log[j].outcome = "published"

\* C2: once the loop of importSPDX has started, importSPDX returns an error
\* only at the end of the loop and only because errorCount is nonzero: no
\* event about one template makes it return before the others are handled.
C2_OnlyFailureCountFailsBatch ==
    (pc = "done" /\ log # <<>> /\ ret # "nil") =>
        (ret = "err_count" /\ idx = Len(templateDEs))

ValidatedIds == {log[k].id : k \in {j \in 1..Len(log) : ValidatedOK(log[j])}}

IdOfAny(name) ==
    TrimSuffix(TrimSuffix(TrimSuffix(name, TemplateSuffix), <<".txt">>), <<".json">>)

CatalogIds ==
    {IdOfAny(f.name) : f \in New(<<"template">>) \cup New(<<"precheck">>) \cup New(<<"testdata">>)}

InvalidIds == {IdOfAny(f.name) : f \in New(<<"testdata", "invalid">>)}

PublishedOnlyIfValidated ==
    /\ \A f \in New(<<"template">>) : IdOf(f.name) \in ValidatedIds
    /\ \A f \in New(<<"precheck">>) : TrimSuffix(f.name, <<".json">>) \in ValidatedIds

IsCustomFile(f) == ~f.old /\ Len(f.dir) > 0 /\ f.dir[1] = "license_patterns"

\* C4: in importCustom a pattern file and its prechecks file are in the
\* destination only if the pattern's text was normalized without error and
\* a regex was generated from it without error.
C4_PatternValidatedBeforePublished ==
    \A f \in destFiles :
        (IsCustomFile(f) /\ ToLower(f.name) # LicenseInfoJSON) =>
            \E k \in 1..Len(clog) :
                /\ clog[k].kind = "pattern"
                /\ CustomDir(clog[k].id) = f.dir
                /\ f.name \in {clog[k].name, PrechecksNameOf(clog[k].name)}
                /\ ~clog[k].normErr /\ ~clog[k].reErr

Retried(e) == e.retry \in {"ok", "fail"}

\* the loop decided to write the entry to the catalog
Admitted(e) == e.outcome \in {"published", "abort_write"}

\* C5: validation is retried against the alternate text exactly when the
\* first validate call failed and the id starts with "deprecated_", at most
\* once, and the identifier is admitted to the catalog iff the first
\* validation or the retry succeeded and counted as a failure otherwise.
C5_DeprecatedRetry ==
    \A k \in 1..Len(log) :
        log[k].first # "none" =>
            /\ Retried(log[k]) <=> (log[k].first = "fail" /\ HasPrefix(log[k].id, deprecatedPrefix))
            /\ Admitted(log[k]) <=> ValidatedOK(log[k])
            /\ log[k].outcome = "invalid" <=> ~ValidatedOK(log[k])

RunsSPDX == cfg.addAll # "" /\ doImportSPDX(cfg) /\ ~doImportCustom(cfg)
RunsCustom == cfg.addAll # "" /\ doImportCustom(cfg) /\ ~doImportSPDX(cfg)

\* the destination directories the running import writes to
TargetDirs ==
    IF RunsSPDX THEN {SPDXDirs[k] : k \in 1..Len(SPDXDirs)}
    ELSE IF RunsCustom THEN {CustomDir(licenseIds[k]) : k \in 1..Len(licenseIds)}
    ELSE {}

\* C6: if a destination directory the import would write to already holds
\* an entry, the import returns an error and writes no file.
C6_ReimportWritesNothing ==
    (\E f \in destFiles : f.old /\ f.dir \in TargetDirs) =>
        /\ \A f \in destFiles : f.old
        /\ pc = "done" => ret # "nil"

RECURSIVE EscapeRun(_, _)
EscapeRun(t, p) == IF p > 1 /\ t[p - 1] = "\\" THEN 1 + EscapeRun(t, p - 1) ELSE 0

EscapedAt(t, p) == EscapeRun(t, p) % 2 = 1

EscapedCloseInMarker(t) ==
    \E i \in 1..Len(t) : \E j \in (i + 1)..(Len(t) - 1) :
        t[i] = "<<" /\ t[j] = "\\" /\ t[j + 1] = ">>"

\* C8: for a template with an escaped closing delimiter inside a marker,
\* validate either returns an error or the template compiled with every
\* marker ended at an unescaped closing delimiter.
C8_NoSilentTruncation ==
    (vResult # NotRun /\ EscapedCloseInMarker(vTemplate)) =>
        \/ vResult.err # ""
        \/ LET c == compileTemplate(vTemplate) IN
            /\ c.ok
            /\ \A k \in 1..Len(c.ends) :
                vTemplate[c.ends[k]] = ">>" /\ ~EscapedAt(vTemplate, c.ends[k])

C8_Witness ==
    /\ EscapedCloseInMarker(vTemplate)
    /\ vResult.err = ""
    /\ \E k \in 1..Len(compileTemplate(vTemplate).segs) :
        LET g == compileTemplate(vTemplate).segs[k]
        IN  g.kind = "Variable" /\ \E q \in 1..Len(g.text) : g.text[q] = ">>"

\* C9: every read through a Resources value uses the reader and path that
\* were selected when NewResources ran.
C9_ReaderSelectedOnce ==
    (res.built /\ reads.op # "none") =>
        LET sel == IF reads.family = "spdx" THEN res.selectedSpdx ELSE res.selectedCustom
        IN  reads.reader = sel.reader /\ reads.root = sel.path

ListedFailures == {"err_readdir_id", "err_not_empty", "err_unmarshal", "err_regex"}

IdsHandled == {clog[k].id : k \in {j \in 1..Len(clog) : clog[j].kind = "id"}}

FilesHandled(id) ==
    Cardinality({k \in 1..Len(clog) : clog[k].id = id /\ clog[k].kind \notin {"id", "ids"}})

\* C10: in importCustom a failure about one identifier or one pattern file
\* (directory unreadable, destination directory not empty, license info
\* not unmarshalled, no regex generated) does not abort the batch: when
\* importCustom returns, every identifier and every file of the directory
\* it was in have been handled.
C10_CustomFailureContinues ==
    (RunsCustom /\ pc = "done" /\ ret \in ListedFailures) =>
        /\ \A k \in 1..Len(licenseIds) : licenseIds[k] \in IdsHandled
        /\ idIdx < Len(licenseIds) => FilesHandled(licenseIds[idIdx + 1]) = Len(des)

\* nothing in the destination but what was there before the call
DestinationUntouched ==
    /\ \A f \in destFiles : f.old
    /\ destDirs = DirsOf(destFiles)

NoImporterRan ==
    /\ called = <<>>
    /\ log = <<>> /\ clog = <<>> /\ sources = NoSources
    /\ DestinationUntouched

\* C11: Import runs at most one importer per call: with an empty addAll
\* flag it returns nil and has no effect; with neither or both destinations
\* non-default it returns an error and has no effect; otherwise it runs
\* exactly one importer, the one whose destination is non-default, and what
\* it returns is what that importer returned.
C11_ImportRunsAtMostOneImporter ==
    /\ Len(called) <= 1
    /\ called = <<"importSPDX">> => (RunsSPDX /\ clog = <<>>)
    /\ called = <<"importCustom">> => (RunsCustom /\ log = <<>> /\ sources = NoSources)
    /\ pc = "done" =>
        /\ cfg.addAll = "" => (ret = "nil" /\ NoImporterRan)
        /\ (cfg.addAll # "" /\ doImportSPDX(cfg) = doImportCustom(cfg)) =>
            (ret = "err_destination" /\ NoImporterRan)
        /\ RunsSPDX => (called = <<"importSPDX">> /\ ret # "err_destination")
        /\ RunsCustom => (called = <<"importCustom">> /\ ret # "err_destination")

C11_Witness ==
    /\ pc = "done"
    /\ called = <<"importCustom">>
    /\ ret = "nil"
    /\ \E f \in destFiles : IsCustomFile(f)

JSONErrors == {"err_read", "err_unmarshal"}

\* one of the checks importSPDX makes on its sources fails
SourceFault(s) ==
    \/ s.licenses \in JSONErrors
    \/ s.exceptions \in JSONErrors
    \/ (s.exceptions # Unread /\ s.licenses # s.exceptions)
    \/ (s.templates # UnreadDir /\ (s.templates.err \/ s.templates.entries = <<>>))

\* C12: in importSPDX every check of the sources precedes every effect on
\* the destination: when licenses.json or exceptions.json cannot be read or
\* unmarshalled, when their versions differ, or when the template source
\* directory cannot be read or is empty, importSPDX has returned an error,
\* no destination directory has been created and no file has been written.
C12_SourceChecksPrecedeEffects ==
    (sources # NoSources /\ SourceFault(sources)) =>
        /\ pc = "done"
        /\ ret \notin {"nil", "none"}
        /\ log = <<>>
        /\ DestinationUntouched

C12_Witness ==
    /\ sources # NoSources
    /\ sources.licenses = "v1" /\ sources.exceptions = "v1"
    /\ sources.templates # UnreadDir
    /\ sources.templates.entries = <<>> /\ ~sources.templates.err
    /\ ret = "err_empty_templates"
    /\ \E f \in destFiles : f.old

\* C14: importCustom returns nil only if every input it needed was read:
\* when listing the custom license pattern ids returned an error,
\* importCustom returns an error.
C14_IdsListingErrorIsReturned ==
    (pc = "done" /\ called = <<"importCustom">>
        /\ \E k \in 1..Len(clog) : clog[k].kind = "ids" /\ clog[k].outcome = "error")
    => ret # "nil"

\* the paths at which a file with this name was written under the
\* subdirectory sub
WrittenAt(sub, name) ==
    {f.dir \o f.name : f \in {g \in destFiles :
        g.name = name /\ g.dir # <<>> /\ g.dir[Len(g.dir)] = sub}}

\* C13: write/read path round trip: with a non-empty SPDX path flag, for a
\* published template source file X.template.txt or
\* deprecated_X.template.txt, ReadSPDXTemplateFile(X, isDeprecated) opens
\* the path the template was written at and ReadSPDXPreCheckFile(X,
\* isDeprecated) opens the path the precheck file was written at, where
\* isDeprecated is true exactly for the deprecated_ name.
C13_WriteReadRoundTrip ==
    (cfg.spdxPath # "" /\ reads.op \in {"ReadSPDXTemplateFile", "ReadSPDXPreCheckFile"}) =>
        \A k \in 1..Len(log) :
            LET e == log[k]
                isDeprecated == HasPrefix(e.name, deprecatedPrefix)
                X == TrimPrefix(e.id, deprecatedPrefix)
            IN  (/\ e.outcome = "published"
                 /\ HasSuffix(e.name, TemplateSuffix)
                 /\ reads.id = X
                 /\ reads.isDeprecated = isDeprecated) =>
                    reads.opened \in
                        (IF reads.op = "ReadSPDXTemplateFile"
                         THEN WrittenAt("template", e.name)
                         ELSE WrittenAt("precheck", PrecheckNameOf(e.id)))

====
